---- MODULE Spec2Model ----
(***************************************************************************)
(* ZendCallable (src/types/callable.rs): a wrapper around a callable Zval  *)
(* that either borrows or owns the Zval, and try_call, which marshals the  *)
(* parameters, calls _call_user_function_impl and maps the status code and *)
(* the executor globals' pending exception to a Result.                    *)
(***************************************************************************)
EXTENDS Integers, Sequences, FiniteSets, TLC

\* ------------------------------------------------------------------ bounds
\* Stand-in for u32::MAX, the largest parameter count the FFI call accepts.
U32_MAX == 2
\* Longest parameter list a caller passes: one more than fits in a u32.
MaxArgs == U32_MAX + 1
\* Cap on the number of calls into _call_user_function_impl.
MaxCalls == 2

\* The Zvals the caller starts with.
Cells == {1, 2}

\* Function names passed to try_from_name, and the Zval each call builds.
Names == {"strpos", "definitely_not_a_real_function_xyz"}
NameCell == [n \in Names |-> IF n = "strpos" THEN 3 ELSE 4]
NameCells == {NameCell[n] : n \in Names}
AllCells == Cells \cup NameCells

\* -------------------------------------------------------- external values
\* Native parameters (&dyn IntoZvalDyn): two integers, a string with an
\* interior NUL byte and a value that has no Zval representation.
NativeVals == {"i1", "i2", "s_nul", "opaque"}

ArgSeqs == UNION {[1 .. n -> NativeVals] : n \in 0 .. MaxArgs}

NoZval == [ty |-> "Undef", v |-> 0]
Long(n) == [ty |-> "Long", v |-> n]
ZStr(name) == [ty |-> "String", v |-> name]
\* Zvals the called PHP function can leave in the return slot.
RetVals == {[ty |-> "Long", v |-> 1], [ty |-> "Null", v |-> 0]}

\* ExecutorGlobals.exception: "none" is the null pointer.
None == "none"
ExcVals == {"e1", "e2"}
Statuses == {-1, 0}

\* ----------------------------------------------------------------- results
Ok(x) == [tag |-> "Ok", val |-> x, kind |-> "none", exc |-> None]
Err(k) == [tag |-> "Err", val |-> NoZval, kind |-> k, exc |-> None]
ErrException(e) == [tag |-> "Err", val |-> NoZval, kind |-> "Exception", exc |-> e]
Pending == [tag |-> "Pending", val |-> NoZval, kind |-> "none", exc |-> None]

NoWrapper == [kind |-> "None", zv |-> 0]
Reference(c) == [kind |-> "Reference", zv |-> c]
Owned(c) == [kind |-> "Owned", zv |-> c]

VARIABLES
    callable,     \* callable[c]: what Zval::is_callable answers for Zval c now
    owner,        \* owner[c]: "caller", "wrapper" (moved into a ZendCallable) or "dropped"
    wrapper,      \* the ZendCallable the caller holds, or NoWrapper
    ctor,         \* the last constructor call and what it returned
    exception,    \* ExecutorGlobals.exception, the pending exception slot
    bridgeCalls,  \* number of calls made to _call_user_function_impl
    frame,        \* the running or the last try_call: its inputs, locals and result
    pair,         \* the same try_call made through a borrowing and an owning wrapper
    released      \* released[c]: how many times Zval c has been dropped

vars == <<callable, owner, wrapper, ctor, exception, bridgeCalls, frame, pair, released>>

\* -------------------------------------------------------- Conversion Layer
\* IntoZvalDyn::as_zval(false) of each native parameter.
as_zval(v) ==
    CASE v = "i1" -> Ok(Long(1))
      [] v = "i2" -> Ok(Long(2))
      [] v = "s_nul" -> Err("InvalidCString")
      [] v = "opaque" -> Err("ZvalConversion")

\* Zval::is_callable
is_callable(c) == callable[c]

\* ExecutorGlobals::take_exception: yields the pending exception and nulls the slot.
take_exception(slot) == [val |-> slot, slot |-> None]

\* Zval::set_string(name, false) on a new Zval: the Zval becomes a string
\* holding the name.
set_string(name) == [tag |-> "Ok", zv |-> NameCell[name], made |-> ZStr(name), kind |-> "none"]

\* impl From<TryFromIntError> for Error
FromTryFromIntError == "IntegerOverflow"

\* ------------------------------------------------------------------ OwnedZval
as_ref_swapped(w) ==
    CASE w.kind = "Reference" -> w.zv
      [] w.kind = "Owned" -> 3 - w.zv

as_ref(w) ==
    CASE w.kind = "Reference" -> w.zv
      [] w.kind = "Owned" -> w.zv

drop_glue_frees_borrowed(w) == {w.zv}

\* Dropping an OwnedZval: the Owned variant holds a Zval and drops it, the
\* Reference variant holds a shared reference and drops nothing.
drop_glue(w) ==
    CASE w.kind = "Reference" -> {}
      [] w.kind = "Owned" -> {w.zv}

\* ---------------------------------------------------------------- constructors
CtorOk(w, moved) == [tag |-> "Ok", w |-> w, kind |-> "none", arg |-> moved]
CtorErr(k, moved) == [tag |-> "Err", w |-> NoWrapper, kind |-> k, arg |-> moved]

new_unchecked(c) == CtorOk(Reference(c), "caller")

\* ZendCallable::new: the Zval stays with the caller, the wrapper borrows it.
new(c) ==
    IF is_callable(c)
    THEN CtorOk(Reference(c), "caller")
    ELSE CtorErr("Callable", "caller")

new_owned_leaks(c) ==
    IF is_callable(c)
    THEN CtorOk(Owned(c), "wrapper")
    ELSE CtorErr("Callable", "leaked")

\* ZendCallable::new_owned: the Zval is moved in; on the Err branch the
\* parameter goes out of scope and is dropped.
new_owned(c) ==
    IF is_callable(c)
    THEN CtorOk(Owned(c), "wrapper")
    ELSE CtorErr("Callable", "dropped")

try_from_name_borrowing(name) ==
    LET s == set_string(name)
    IN  IF s.tag = "Err"
        THEN CtorErr(s.kind, "dropped")
        ELSE [new(s.zv) EXCEPT !.arg = "dropped"]

\* ZendCallable::try_from_name: a new Zval is set to the name (an error of
\* set_string is returned by `?`), then moved into new_owned.
try_from_name(name) ==
    LET s == set_string(name)
    IN  IF s.tag = "Err"
        THEN CtorErr(s.kind, "dropped")
        ELSE new_owned(s.zv)

from_zval_unchecked(c) ==
    [tag |-> "Some", w |-> Reference(c), kind |-> "none", arg |-> "caller"]

\* FromZval::from_zval: ZendCallable::new(zval).ok()
from_zval(c) ==
    LET r == new(c)
    IN  IF r.tag = "Ok"
        THEN [tag |-> "Some", w |-> r.w, kind |-> "none", arg |-> r.arg]
        ELSE [tag |-> "None", w |-> NoWrapper, kind |-> "none", arg |-> r.arg]

\* TryFrom<Zval>::try_from: ZendCallable::new_owned(value)
try_from(c) == new_owned(c)

\* ------------------------------------------------------------------- try_call
RECURSIVE Collect(_, _, _, _)
\* .map(|val| val.as_zval(false)).collect::<Result<Vec<_>>>(): converts in
\* order and stops at the first Err.
Collect(args, i, acc, log) ==
    IF i > Len(args)
    THEN [tag |-> "Ok", cells |-> acc, log |-> log, kind |-> "none"]
    ELSE LET r == as_zval(args[i])
         IN  IF r.tag = "Err"
             THEN [tag |-> "Err", cells |-> <<>>, log |-> Append(log, i), kind |-> r.kind]
             ELSE Collect(args, i + 1, Append(acc, r.val), Append(log, i))

RECURSIVE CollectAll(_, _, _, _, _)
CollectAll(args, i, acc, log, kind) ==
    IF i > Len(args)
    THEN IF kind = "none"
         THEN [tag |-> "Ok", cells |-> acc, log |-> log, kind |-> "none"]
         ELSE [tag |-> "Err", cells |-> <<>>, log |-> log, kind |-> kind]
    ELSE LET r == as_zval(args[i])
         IN  IF r.tag = "Err"
             THEN CollectAll(args, i + 1, acc, Append(log, i), r.kind)
             ELSE CollectAll(args, i + 1, Append(acc, r.val), Append(log, i), kind)

marshal_no_short_circuit(args) == CollectAll(args, 1, <<>>, <<>>, "none")

marshal_reversed(args) ==
    LET m == Collect(args, 1, <<>>, <<>>)
    IN  [m EXCEPT !.cells = [i \in 1 .. Len(m.cells) |-> m.cells[Len(m.cells) + 1 - i]]]

marshal(args) == Collect(args, 1, <<>>, <<>>)

try_into_u32_wrapping(len) ==
    [tag |-> "Ok", val |-> len % (U32_MAX + 1), kind |-> "none"]

\* len.try_into()? to the u32 count parameter.
try_into_u32(len) ==
    IF len <= U32_MAX
    THEN [tag |-> "Ok", val |-> len, kind |-> "none"]
    ELSE [tag |-> "Err", val |-> 0, kind |-> FromTryFromIntError]

\* `buf` is the boxed slice `packed`: "none" while it has not been built,
\* "allocated" while try_call holds it, "released" once it has been dropped.
Return(res, log) ==
    [next |-> "return", result |-> res, log |-> log, argc |-> 0, argv |-> <<>>,
     buf |-> "none"]
\* The `?` on len.try_into() returns after `packed` was built: it is dropped.
ReturnPacked(res, log) == [Return(res, log) EXCEPT !.buf = "released"]
Invoke(n, cells, log) ==
    [next |-> "invoke", result |-> Pending, log |-> log, argc |-> n, argv |-> cells,
     buf |-> "allocated"]

try_call_enter_count_first(w, args) ==
    IF ~is_callable(as_ref(w))
    THEN Return(Err("Callable"), <<>>)
    ELSE LET n == try_into_u32(Len(args))
         IN  IF n.tag = "Err"
             THEN Return(Err(n.kind), <<>>)
             ELSE LET m == marshal(args)
                  IN  IF m.tag = "Err"
                      THEN Return(Err(m.kind), m.log)
                      ELSE Invoke(n.val, m.cells, m.log)

try_call_enter_cached(w, args) ==
    LET len == Len(args)
        m == marshal(args)
    IN  IF m.tag = "Err"
        THEN Return(Err(m.kind), m.log)
        ELSE LET n == try_into_u32(len)
             IN  IF n.tag = "Err"
                 THEN ReturnPacked(Err(n.kind), m.log)
                 ELSE Invoke(n.val, m.cells, m.log)

try_call_enter_owned_unchecked(w, args) ==
    IF w.kind = "Reference" /\ ~is_callable(as_ref(w))
    THEN Return(Err("Callable"), <<>>)
    ELSE try_call_enter_cached(w, args)

\* try_call up to the call of _call_user_function_impl.
try_call_enter(w, args) ==
    IF ~is_callable(as_ref(w))
    THEN Return(Err("Callable"), <<>>)
    ELSE LET len == Len(args)
             m == marshal(args)
         IN  IF m.tag = "Err"
             THEN Return(Err(m.kind), m.log)
             ELSE LET n == try_into_u32(len)
                  IN  IF n.tag = "Err"
                      THEN ReturnPacked(Err(n.kind), m.log)
                      ELSE Invoke(n.val, m.cells, m.log)

interpret_exception_first(status, slot, retval) ==
    LET t == take_exception(slot)
    IN  IF t.val # None
        THEN [result |-> ErrException(t.val), slot |-> t.slot, taken |-> t.val, took |-> TRUE, buf |-> "released"]
        ELSE IF status < 0
             THEN [result |-> Err("Callable"), slot |-> t.slot, taken |-> t.val, took |-> TRUE, buf |-> "released"]
             ELSE [result |-> Ok(retval), slot |-> t.slot, taken |-> t.val, took |-> TRUE, buf |-> "released"]

interpret_peek(status, slot, retval) ==
    IF status < 0
    THEN [result |-> Err("Callable"), slot |-> slot, taken |-> None, took |-> FALSE, buf |-> "released"]
    ELSE IF slot # None
         THEN [result |-> ErrException(slot), slot |-> slot, taken |-> slot, took |-> TRUE, buf |-> "released"]
         ELSE [result |-> Ok(retval), slot |-> slot, taken |-> slot, took |-> TRUE, buf |-> "released"]

interpret_status_only(status, slot, retval) ==
    IF status < 0
    THEN [result |-> Err("Callable"), slot |-> slot, taken |-> None, took |-> FALSE, buf |-> "released"]
    ELSE [result |-> Ok(retval), slot |-> slot, taken |-> None, took |-> FALSE, buf |-> "released"]

interpret_keeps_buffer_on_error(status, slot, retval) ==
    IF status < 0
    THEN [result |-> Err("Callable"), slot |-> slot, taken |-> None, took |-> FALSE,
          buf |-> "allocated"]
    ELSE LET t == take_exception(slot)
         IN  IF t.val # None
             THEN [result |-> ErrException(t.val), slot |-> t.slot, taken |-> t.val,
                   took |-> TRUE, buf |-> "allocated"]
             ELSE [result |-> Ok(retval), slot |-> t.slot, taken |-> t.val,
                   took |-> TRUE, buf |-> "released"]

\* try_call after _call_user_function_impl returned `status`; `packed` is
\* dropped when the function returns.
interpret(status, slot, retval) ==
    IF status < 0
    THEN [result |-> Err("Callable"), slot |-> slot, taken |-> None, took |-> FALSE, buf |-> "released"]
    ELSE LET t == take_exception(slot)
         IN  IF t.val # None
             THEN [result |-> ErrException(t.val), slot |-> t.slot, taken |-> t.val, took |-> TRUE, buf |-> "released"]
             ELSE [result |-> Ok(retval), slot |-> t.slot, taken |-> t.val, took |-> TRUE, buf |-> "released"]

\* ---------------------------------------------------------------------- state
NoCtor == [op |-> "none", zv |-> 0, wasCallable |-> FALSE, result |-> CtorErr("none", "caller")]

NoFrame ==
    [stage |-> "none", self |-> NoWrapper, wasCallable |-> FALSE, args |-> <<>>,
     invoked |-> 0, log |-> <<>>, argc |-> 0, argv |-> <<>>, buf |-> "none",
     pendingAtStart |-> None, status |-> 0, slotAtReturn |-> None, written |-> NoZval,
     taken |-> None, took |-> FALSE, result |-> Pending]

Idle == frame.stage # "bridge"

NoRun ==
    [self |-> NoWrapper, next |-> "none", result |-> Pending, log |-> <<>>,
     argc |-> 0, argv |-> <<>>, invoked |-> 0, slot |-> None]
NoPair == [stage |-> "none", args |-> <<>>, b |-> NoRun, o |-> NoRun]

Init ==
    /\ callable \in [Cells -> BOOLEAN]
    /\ owner = [c \in Cells |-> "caller"]
    /\ wrapper = NoWrapper
    /\ ctor = NoCtor
    /\ exception = None
    /\ bridgeCalls = 0
    /\ frame = NoFrame
    /\ pair = NoPair
    /\ released = [c \in Cells |-> 0]

\* ZendCallable::new(&zval)
New(c) ==
    /\ Idle
    /\ wrapper = NoWrapper
    /\ owner[c] = "caller"
    /\ LET r == new(c)
       IN  /\ ctor' = [op |-> "new", zv |-> c, wasCallable |-> callable[c], result |-> r]
           /\ wrapper' = r.w
           /\ owner' = [owner EXCEPT ![c] = r.arg]
    /\ frame' = NoFrame
    /\ UNCHANGED <<callable, exception, bridgeCalls, pair, released>>

\* ZendCallable::new_owned(zval)
NewOwned(c) ==
    /\ Idle
    /\ wrapper = NoWrapper
    /\ owner[c] = "caller"
    /\ LET r == new_owned(c)
       IN  /\ ctor' = [op |-> "new_owned", zv |-> c, wasCallable |-> callable[c], result |-> r]
           /\ wrapper' = r.w
           /\ owner' = [owner EXCEPT ![c] = r.arg]
           /\ released' = IF r.arg = "dropped"
                          THEN [released EXCEPT ![c] = @ + 1]
                          ELSE released
    /\ frame' = NoFrame
    /\ UNCHANGED <<callable, exception, bridgeCalls, pair>>

\* The ZendCallable goes out of scope: OwnedZval::Owned drops its Zval,
\* OwnedZval::Reference drops nothing.
Discard ==
    /\ Idle
    /\ wrapper # NoWrapper
    /\ wrapper' = NoWrapper
    /\ owner' = [c \in DOMAIN owner |->
                    IF c \in drop_glue(wrapper) THEN "dropped" ELSE owner[c]]
    /\ released' = [c \in DOMAIN released |->
                       IF c \in drop_glue(wrapper) THEN released[c] + 1 ELSE released[c]]
    /\ UNCHANGED <<callable, ctor, exception, bridgeCalls, frame, pair>>

\* The PHP runtime changes what a live Zval refers to, between calls or
\* while the called function runs.
HostMutate(c) ==
    /\ owner[c] \in {"caller", "wrapper", "unbuilt"}
    /\ callable' = [callable EXCEPT ![c] = ~callable[c]]
    /\ UNCHANGED <<owner, wrapper, ctor, exception, bridgeCalls, frame, pair, released>>

try_call_by_value(w) == NoWrapper

\* The receiver of try_call is `&self`: the caller still holds the
\* ZendCallable it called through.
try_call_receiver(w) == w

\* try_call(&self, params), up to and including the call into the runtime.
TryCallStart(args) ==
    /\ frame.stage = "none"
    /\ wrapper # NoWrapper
    /\ bridgeCalls < MaxCalls
    /\ LET e == try_call_enter(wrapper, args)
           f == [NoFrame EXCEPT !.self = wrapper,
                                !.wasCallable = callable[wrapper.zv],
                                !.args = args,
                                !.log = e.log,
                                !.argc = e.argc,
                                !.argv = e.argv,
                                !.buf = e.buf,
                                !.pendingAtStart = exception,
                                !.result = e.result]
       IN  IF e.next = "invoke"
           THEN /\ frame' = [f EXCEPT !.stage = "bridge", !.invoked = 1]
                /\ bridgeCalls' = bridgeCalls + 1
           ELSE /\ frame' = [f EXCEPT !.stage = "returned"]
                /\ bridgeCalls' = bridgeCalls
    /\ ctor' = NoCtor
    /\ wrapper' = try_call_receiver(wrapper)
    /\ UNCHANGED <<callable, owner, exception, pair, released>>

\* _call_user_function_impl returns: the runtime has left a status, a return
\* value and possibly a pending exception; try_call maps them to its result.
BridgeReturn(status, slot, out) ==
    /\ frame.stage = "bridge"
    /\ LET r == interpret(status, slot, out)
       IN  /\ frame' = [frame EXCEPT !.stage = "returned",
                                     !.status = status,
                                     !.slotAtReturn = slot,
                                     !.written = out,
                                     !.taken = r.taken,
                                     !.took = r.took,
                                     !.buf = r.buf,
                                     !.result = r.result]
           /\ exception' = r.slot
    /\ UNCHANGED <<callable, owner, wrapper, ctor, bridgeCalls, pair, released>>

\* The caller takes the Result<Zval> that try_call returned.
TakeResult ==
    /\ frame.stage = "returned"
    /\ frame' = NoFrame
    /\ UNCHANGED <<callable, owner, wrapper, ctor, exception, bridgeCalls, pair, released>>

Next ==
    \/ \E c \in Cells : New(c)
    \/ \E c \in Cells : NewOwned(c)
    \/ Discard
    \/ \E c \in Cells : HostMutate(c)
    \/ \E args \in ArgSeqs : TryCallStart(args)
    \/ TakeResult
    \/ \E status \in Statuses, slot \in ExcVals \cup {None}, out \in RetVals :
          BridgeReturn(status, slot, out)

Spec == Init /\ [][Next]_vars

TypeOK ==
    /\ callable \in [DOMAIN owner -> BOOLEAN]
    /\ owner \in [DOMAIN owner -> {"caller", "wrapper", "dropped", "unbuilt"}]
    /\ wrapper.kind \in {"None", "Reference", "Owned"}
    /\ exception \in ExcVals \cup {None}
    /\ bridgeCalls \in 0 .. MaxCalls
    /\ frame.stage \in {"none", "bridge", "returned"}
    /\ frame.buf \in {"none", "allocated", "released"}
    /\ frame.pendingAtStart \in ExcVals \cup {None}

\* ------------------------------------------- one call through both variants
\* The caller holds Zval 1 and a copy of it, Zval 2: both refer to the same
\* PHP callable. A ZendCallable borrows Zval 1, another owns Zval 2, and
\* every try_call is made through both from the same state of the runtime.
Borrowing == new(1).w
Owning == new_owned(2).w

\* What one try_call has done when it returns early or enters the runtime.
Entered(w, args, pending) ==
    LET e == try_call_enter(w, args)
    IN  [self |-> w, next |-> e.next, result |-> e.result, log |-> e.log,
         argc |-> e.argc, argv |-> e.argv,
         invoked |-> IF e.next = "invoke" THEN 1 ELSE 0, slot |-> pending]

\* What it has done when the runtime returned to it.
Left(run, status, slot, out) ==
    IF run.next = "invoke"
    THEN LET r == interpret(status, slot, out)
         IN  [run EXCEPT !.next = "return", !.result = r.result, !.slot = r.slot]
    ELSE run

InitPair ==
    /\ callable = [c \in Cells |-> TRUE]
    /\ owner = [c \in Cells |-> IF c = 2 THEN new_owned(2).arg ELSE new(1).arg]
    /\ wrapper = NoWrapper
    /\ ctor = NoCtor
    /\ exception \in ExcVals \cup {None}
    /\ bridgeCalls = 0
    /\ frame = NoFrame
    /\ pair = [NoPair EXCEPT !.b.self = Borrowing, !.o.self = Owning]
    /\ released = [c \in Cells |-> 0]

PairStart(args) ==
    /\ pair.stage = "none"
    /\ LET rb == Entered(pair.b.self, args, exception)
           ro == Entered(pair.o.self, args, exception)
       IN  pair' = [stage |-> IF "invoke" \in {rb.next, ro.next}
                              THEN "bridge" ELSE "returned",
                    args |-> args, b |-> rb, o |-> ro]
    /\ UNCHANGED <<callable, owner, wrapper, ctor, exception, bridgeCalls, frame, released>>

PairBridgeReturn(status, slot, out) ==
    /\ pair.stage = "bridge"
    /\ pair' = [pair EXCEPT !.stage = "returned",
                            !.b = Left(pair.b, status, slot, out),
                            !.o = Left(pair.o, status, slot, out)]
    /\ exception' = pair'.b.slot
    /\ UNCHANGED <<callable, owner, wrapper, ctor, bridgeCalls, frame, released>>

PairTakeResult ==
    /\ pair.stage = "returned"
    /\ pair' = [NoPair EXCEPT !.b.self = pair.b.self, !.o.self = pair.o.self]
    /\ UNCHANGED <<callable, owner, wrapper, ctor, exception, bridgeCalls, frame, released>>

\* The runtime changes the callable both Zvals refer to.
PairHostMutate ==
    /\ callable' = [c \in Cells |-> ~callable[c]]
    /\ UNCHANGED <<owner, wrapper, ctor, exception, bridgeCalls, frame, pair, released>>

NextPair ==
    \/ \E args \in ArgSeqs : PairStart(args)
    \/ \E status \in Statuses, slot \in ExcVals \cup {None}, out \in RetVals :
          PairBridgeReturn(status, slot, out)
    \/ PairTakeResult
    \/ PairHostMutate

SpecPair == InitPair /\ [][NextPair]_vars

\* ----------------------------------- the constructors and the conversions
\* Every way of making a ZendCallable, over the caller's Zvals and the
\* Zvals try_from_name builds; callable[NameCell[n]] tells whether the
\* runtime has an invokable function registered under the name n.
InitCtor ==
    /\ callable \in [AllCells -> BOOLEAN]
    /\ owner = [c \in AllCells |-> IF c \in Cells THEN "caller" ELSE "unbuilt"]
    /\ wrapper = NoWrapper
    /\ ctor = NoCtor
    /\ exception = None
    /\ bridgeCalls = 0
    /\ frame = NoFrame
    /\ pair = NoPair
    /\ released = [c \in AllCells |-> 0]

\* Applies a constructor result: the wrapper made, where the Zval went.
Construct(op, c, r) ==
    /\ ctor' = [op |-> op, zv |-> c, wasCallable |-> callable[c], result |-> r]
    /\ wrapper' = r.w
    /\ owner' = [owner EXCEPT ![c] = r.arg]
    /\ released' = IF r.arg = "dropped"
                   THEN [released EXCEPT ![c] = @ + 1]
                   ELSE released
    /\ UNCHANGED <<callable, exception, bridgeCalls, frame, pair>>

\* ZendCallable::try_from_name(name)
TryFromName(name) ==
    /\ wrapper = NoWrapper
    /\ owner[NameCell[name]] = "unbuilt"
    /\ Construct("try_from_name", NameCell[name], try_from_name(name))

\* <ZendCallable as FromZval>::from_zval(&zval)
FromZval(c) ==
    /\ wrapper = NoWrapper
    /\ owner[c] = "caller"
    /\ Construct("from_zval", c, from_zval(c))

\* <ZendCallable as TryFrom<Zval>>::try_from(zval)
TryFrom(c) ==
    /\ wrapper = NoWrapper
    /\ owner[c] = "caller"
    /\ Construct("try_from", c, try_from(c))

NextCtor ==
    \/ \E c \in Cells : New(c)
    \/ \E c \in Cells : NewOwned(c)
    \/ \E n \in Names : TryFromName(n)
    \/ \E c \in Cells : FromZval(c)
    \/ \E c \in Cells : TryFrom(c)
    \/ Discard
    \/ \E c \in AllCells : HostMutate(c)

SpecCtor == InitCtor /\ [][NextCtor]_vars

\* ===================================================================== claims
Returned == frame.stage = "returned"
\* The call went through _call_user_function_impl and has returned.
ReturnedFromBridge == Returned /\ frame.invoked = 1
\* Error kinds that come from marshalling or from the count conversion.
ConversionFailureKinds == {"InvalidCString", "ZvalConversion", "IntegerOverflow"}
Fails(v) == as_zval(v).tag = "Err"
AllConvert(args) == \A i \in 1 .. Len(args) : ~Fails(args[i])
Upto(n) == [i \in 1 .. n |-> i]

\* C1: new(c) returns Ok(Reference over c) exactly when c is callable and
\* new_owned(c) returns Ok(Owned holding c) exactly when c is callable; every
\* other constructor call returns Err(Error::Callable) and no other kind.
C1_ConstructorsIffCallable ==
    /\ ctor.op = "new" =>
          /\ (ctor.result.tag = "Ok") <=> ctor.wasCallable
          /\ ctor.result.tag = "Ok" => ctor.result.w = Reference(ctor.zv)
          /\ ctor.result.tag # "Ok" =>
                ctor.result.tag = "Err" /\ ctor.result.kind = "Callable"
    /\ ctor.op = "new_owned" =>
          /\ (ctor.result.tag = "Ok") <=> ctor.wasCallable
          /\ ctor.result.tag = "Ok" => ctor.result.w = Owned(ctor.zv)
          /\ ctor.result.tag # "Ok" =>
                ctor.result.tag = "Err" /\ ctor.result.kind = "Callable"

C1_Witness ==
    /\ ctor.op = "new_owned"
    /\ ctor.wasCallable
    /\ ctor.result.tag = "Ok"
    /\ wrapper = Owned(ctor.zv)

\* C2 as stated: after new_owned fails on a Zval that is not callable, the
\* Zval is still live and owned by the caller.
C2_RejectedCellBackWithCaller ==
    (ctor.op = "new_owned" /\ ~ctor.wasCallable) =>
        /\ ctor.result.tag = "Err" /\ ctor.result.kind = "Callable"
        /\ owner[ctor.zv] = "caller"

\* C2 (amended): after new_owned fails on a Zval that is not callable, it has
\* returned Err(Error::Callable) and the Zval, which was moved into the
\* constructor, has been dropped by it: not leaked, not handed back.
C2_RejectedCellDropped ==
    (ctor.op = "new_owned" /\ ~ctor.wasCallable) =>
        /\ ctor.result.tag = "Err" /\ ctor.result.kind = "Callable"
        /\ owner[ctor.zv] = "dropped"
        /\ wrapper = NoWrapper

C2_Witness ==
    /\ ctor.op = "new_owned"
    /\ ~ctor.wasCallable
    /\ ctor.result.tag = "Err"
    /\ owner[ctor.zv] = "dropped"

\* C3: once _call_user_function_impl has returned, a negative status gives
\* Err(Callable) whatever exception is pending; otherwise a pending exception
\* v gives Err(Exception(v)); otherwise the result is Ok of the Zval the call
\* wrote to the return slot.
C3_OutcomeOrder ==
    ReturnedFromBridge =>
        frame.result =
            IF frame.status < 0
            THEN Err("Callable")
            ELSE IF take_exception(frame.slotAtReturn).val # None
                 THEN ErrException(take_exception(frame.slotAtReturn).val)
                 ELSE Ok(frame.written)

C3_Witness ==
    /\ ReturnedFromBridge
    /\ frame.status < 0
    /\ frame.slotAtReturn # None
    /\ frame.result = Err("Callable")

\* C4: when try_call returns Err(Exception(v)), v is the exception that was
\* pending when the foreign call returned and the slot is empty afterwards,
\* so a following take_exception yields nothing.
C4_ExceptionTakenOnce ==
    (Returned /\ frame.result.kind = "Exception") =>
        /\ frame.result.exc # None
        /\ frame.result.exc = frame.slotAtReturn
        /\ exception = None
        /\ take_exception(exception).val = None

C4_Witness ==
    /\ Returned
    /\ frame.result = ErrException("e2")
    /\ frame.slotAtReturn = "e2"
    /\ exception = None

\* C5: if the conversion of the N-th parameter fails, it is the last
\* conversion attempted, _call_user_function_impl is not called and try_call
\* returns the error kind of that conversion.
C5_MarshalAbortsAtFirstFailure ==
    \A n \in 1 .. Len(frame.log) :
        Fails(frame.args[frame.log[n]]) =>
            /\ n = Len(frame.log)
            /\ Returned
            /\ frame.invoked = 0
            /\ frame.result = Err(as_zval(frame.args[frame.log[n]]).kind)

C5_Witness ==
    /\ Returned
    /\ Len(frame.args) = 3
    /\ frame.log = <<1, 2>>
    /\ frame.args[2] = "s_nul"
    /\ frame.args[3] = "opaque"
    /\ frame.result = Err("InvalidCString")

\* C6 as stated: more parameters than the count bound make try_call fail
\* with a conversion failure kind without calling _call_user_function_impl.
C6_OverflowIsConversionFailure ==
    (Returned /\ Len(frame.args) > U32_MAX) =>
        /\ frame.result.tag = "Err"
        /\ frame.result.kind \in ConversionFailureKinds
        /\ frame.invoked = 0

\* C6 (amended): more parameters than the count bound never reach
\* _call_user_function_impl and try_call fails: with Callable when the Zval
\* is not callable at the start of the call, otherwise with a conversion
\* failure kind (the failing parameter's, or the overflow kind when every
\* parameter converted).
C6_OverflowNeverInvokes ==
    Len(frame.args) > U32_MAX =>
        /\ Returned
        /\ frame.invoked = 0
        /\ frame.result.tag = "Err"
        /\ ~frame.wasCallable => frame.result.kind = "Callable"
        /\ frame.wasCallable => frame.result.kind \in ConversionFailureKinds
        /\ (frame.wasCallable /\ AllConvert(frame.args)) =>
              frame.result.kind = FromTryFromIntError

C6_Witness ==
    /\ Returned
    /\ Len(frame.args) = U32_MAX + 1
    /\ frame.wasCallable
    /\ AllConvert(frame.args)
    /\ frame.result = Err("IntegerOverflow")
    /\ frame.invoked = 0
    /\ bridgeCalls > 0

\* C7: every try_call checks callability afresh: started on a Zval that is
\* not callable it returns Err(Callable) without converting a parameter and
\* without calling _call_user_function_impl; started on a callable Zval it
\* goes on to marshalling, whatever happened in earlier calls.
C7_CallabilityRechecked ==
    frame.stage # "none" =>
        /\ ~frame.wasCallable =>
              /\ Returned
              /\ frame.result = Err("Callable")
              /\ frame.log = <<>>
              /\ frame.invoked = 0
        /\ frame.wasCallable =>
              /\ frame.args # <<>> => (frame.log # <<>> /\ frame.log[1] = 1)
              /\ frame.args = <<>> => frame.invoked = 1

C7_Witness ==
    /\ Returned
    /\ frame.self # NoWrapper
    /\ ~frame.wasCallable
    /\ frame.result = Err("Callable")
    /\ frame.args # <<>>
    /\ bridgeCalls > 0

\* C8 as stated: every try_call that returns an Err has made no call to
\* _call_user_function_impl.
C8_NoFailureAfterInvoke ==
    (Returned /\ frame.result.tag = "Err") => frame.invoked = 0

\* C8 (amended): a try_call that fails in validation, marshalling or the
\* count check has made no call to _call_user_function_impl; the only
\* failures after the call are Err(Callable) for a negative status and
\* Err(Exception) for a pending exception.
C8_PreInvokeFailuresDoNotInvoke ==
    (Returned /\ frame.result.tag = "Err") =>
        IF ~frame.wasCallable \/ ~AllConvert(frame.args) \/ Len(frame.args) > U32_MAX
        THEN frame.invoked = 0
        ELSE /\ frame.invoked = 1
             /\ \/ frame.result.kind = "Callable" /\ frame.status < 0
                \/ frame.result.kind = "Exception" /\ frame.status >= 0

C8_Witness ==
    /\ Returned
    /\ frame.result.tag = "Err"
    /\ frame.wasCallable
    /\ ~AllConvert(frame.args)
    /\ Len(frame.args) <= U32_MAX
    /\ frame.invoked = 0

\* C9: the same try_call (same callable, parameters, conversions, status,
\* pending exception and return value) made through a borrowing wrapper and
\* through an owning wrapper over a copy of the Zval gives the same result,
\* passes the same count and buffer to _call_user_function_impl, calls it
\* the same number of times and leaves the same pending exception.
C9_BorrowedAndOwnedAgree ==
    /\ pair.b.self.kind = "Reference"
    /\ pair.o.self.kind = "Owned"
    /\ pair.stage # "none" =>
          /\ pair.b.next = pair.o.next
          /\ pair.b.result = pair.o.result
          /\ pair.b.slot = pair.o.slot
          /\ pair.b.invoked = pair.o.invoked
          /\ pair.b.argc = pair.o.argc
          /\ pair.b.argv = pair.o.argv
          /\ pair.b.log = pair.o.log

C9_Witness ==
    /\ pair.stage = "returned"
    /\ pair.b.self = Reference(1)
    /\ pair.o.self = Owned(2)
    /\ pair.b.invoked = 1
    /\ pair.o.invoked = 1
    /\ pair.b.result = ErrException("e1")
    /\ pair.o.result = ErrException("e1")
    /\ exception = None

\* C10: when _call_user_function_impl is called, the count passed is the
\* number of parameters given, the i-th Zval of the buffer is the conversion
\* of the i-th parameter, and the conversions were made in index order.
C10_ArgumentsInOrder ==
    /\ frame.invoked = 1 =>
          /\ frame.argc = Len(frame.args)
          /\ Len(frame.argv) = Len(frame.args)
          /\ \A i \in 1 .. Len(frame.args) :
                frame.argv[i] = as_zval(frame.args[i]).val
    /\ frame.log = Upto(Len(frame.log))

C10_Witness ==
    /\ frame.stage = "bridge"
    /\ frame.args = <<"i2", "i1">>
    /\ frame.argc = 2
    /\ frame.argv = <<Long(2), Long(1)>>

\* C11: while an owning wrapper lives its Zval is held by it and has not been
\* dropped; discarding the wrapper drops that Zval, once, and nothing else.
\* A borrowing wrapper's Zval stays with the caller while the wrapper lives,
\* and discarding the wrapper drops nothing. No Zval is dropped twice, and
\* no try_call step drops one.
C11_OwnedReleasedOnceAtDiscard ==
    /\ [](/\ wrapper.kind = "Owned" =>
                owner[wrapper.zv] = "wrapper" /\ released[wrapper.zv] = 0
          /\ wrapper.kind = "Reference" =>
                owner[wrapper.zv] = "caller" /\ released[wrapper.zv] = 0
          /\ \A c \in Cells : released[c] <= 1)
    /\ [][/\ (wrapper.kind = "Owned" /\ wrapper' = NoWrapper) =>
                /\ released' = [released EXCEPT ![wrapper.zv] = 1]
                /\ owner' = [owner EXCEPT ![wrapper.zv] = "dropped"]
          /\ (wrapper.kind = "Reference" /\ wrapper' = NoWrapper) =>
                /\ released' = released
                /\ owner' = owner
                /\ owner'[wrapper.zv] = "caller"
          /\ (frame' # frame /\ frame'.stage # "none") =>
                (released' = released /\ owner' = owner)]_vars

C11_Witness ==
    /\ wrapper = NoWrapper
    /\ Returned
    /\ frame.self.kind = "Owned"
    /\ frame.invoked = 1
    /\ bridgeCalls = 2
    /\ owner[frame.self.zv] = "dropped"
    /\ released[frame.self.zv] = 1

\* C12: try_from_name(name) builds a string Zval holding the name and gives
\* what new_owned gives for it: Ok(Owned) holding that Zval when the name is
\* callable, otherwise Err(Error::Callable), no other kind, with the Zval
\* dropped.
C12_FromNameIsNewOwnedOfString ==
    ctor.op = "try_from_name" =>
        /\ set_string("strpos").made = ZStr("strpos")
        /\ ctor.zv \in NameCells
        /\ ctor.result =
              IF ctor.wasCallable
              THEN CtorOk(Owned(ctor.zv), "wrapper")
              ELSE CtorErr("Callable", "dropped")
        /\ ctor.wasCallable => owner[ctor.zv] \in {"wrapper", "dropped"}
        /\ ~ctor.wasCallable => (owner[ctor.zv] = "dropped" /\ wrapper = NoWrapper)

C12_Witness ==
    /\ ctor.op = "try_from_name"
    /\ ctor.zv = NameCell["strpos"]
    /\ ctor.result.tag = "Ok"
    /\ wrapper = Owned(NameCell["strpos"])
    /\ owner[NameCell["definitely_not_a_real_function_xyz"]] = "dropped"

\* C13: from_zval(c) is Some(Reference over c) exactly when new(c) succeeds
\* (c is callable) and None otherwise; try_from(c) gives what new_owned(c)
\* gives: Ok(Owned holding c) or Err(Error::Callable) with c dropped.
C13_ConversionsAgreeWithConstructors ==
    /\ ctor.op = "from_zval" =>
          /\ ctor.result.tag \in {"Some", "None"}
          /\ (ctor.result.tag = "Some") <=> ctor.wasCallable
          /\ ctor.result.tag = "Some" => ctor.result.w = Reference(ctor.zv)
          /\ ctor.result.tag = "None" => ctor.result.w = NoWrapper
          /\ owner[ctor.zv] = "caller"
    /\ ctor.op = "try_from" =>
          ctor.result =
              IF ctor.wasCallable
              THEN CtorOk(Owned(ctor.zv), "wrapper")
              ELSE CtorErr("Callable", "dropped")

C13_Witness ==
    /\ ctor.op = "from_zval"
    /\ ~ctor.wasCallable
    /\ ctor.result.tag = "None"
    /\ wrapper = NoWrapper
    /\ owner[ctor.zv] = "caller"
    /\ \E c \in Cells : owner[c] = "dropped"

\* C14: while _call_user_function_impl runs, the parameter buffer is
\* allocated and holds the converted parameters; when try_call has returned
\* the buffer is no longer allocated: it was dropped on every outcome after
\* the foreign call and when the count check failed after marshalling, and
\* it was never built when try_call returned earlier.
C14_BufferSpansTheCall ==
    /\ frame.stage = "none" => frame.buf = "none"
    /\ frame.stage = "bridge" =>
          /\ frame.buf = "allocated"
          /\ Len(frame.argv) = frame.argc
    /\ Returned =>
          /\ frame.buf # "allocated"
          /\ frame.invoked = 1 => frame.buf = "released"
          /\ (frame.wasCallable /\ AllConvert(frame.args) /\ Len(frame.args) > U32_MAX) =>
                frame.buf = "released"
          /\ (~frame.wasCallable \/ ~AllConvert(frame.args)) => frame.buf = "none"

C14_Witness ==
    /\ Returned
    /\ frame.invoked = 1
    /\ frame.result.kind = "Exception"
    /\ Len(frame.argv) = 2
    /\ frame.buf = "released"

\* C15: the failures before the foreign call follow the order validate,
\* marshal, count check: a Zval that is not callable gives Err(Callable) with
\* no conversion attempted, whatever the parameters; a callable Zval with a
\* parameter that fails to convert gives that conversion's error even when
\* the count is too large; the overflow error is returned only for a
\* callable Zval whose parameters all converted.
C15_PreInvokePrecedence ==
    frame.stage # "none" =>
        /\ ~frame.wasCallable =>
              (frame.result = Err("Callable") /\ frame.log = <<>>)
        /\ (frame.wasCallable /\ ~AllConvert(frame.args)) =>
              /\ frame.result.tag = "Err"
              /\ frame.result.kind \in {"InvalidCString", "ZvalConversion"}
              /\ \E n \in 1 .. Len(frame.args) :
                    /\ Fails(frame.args[n])
                    /\ \A i \in 1 .. n - 1 : ~Fails(frame.args[i])
                    /\ frame.result = Err(as_zval(frame.args[n]).kind)
        /\ frame.result.kind = FromTryFromIntError =>
              /\ frame.wasCallable
              /\ AllConvert(frame.args)
              /\ Len(frame.args) > U32_MAX
        /\ (frame.wasCallable /\ AllConvert(frame.args) /\ Len(frame.args) > U32_MAX) =>
              frame.result = Err(FromTryFromIntError)

C15_Witness ==
    /\ Returned
    /\ frame.wasCallable
    /\ Len(frame.args) > U32_MAX
    /\ Fails(frame.args[Len(frame.args)])
    /\ AllConvert(SubSeq(frame.args, 1, Len(frame.args) - 1))
    /\ frame.result = Err(as_zval(frame.args[Len(frame.args)]).kind)

\* C16: no step of try_call changes the ZendCallable: while a call is in
\* progress or has returned, with any result, a ZendCallable that has not
\* been dropped since is the one the call was made through, same variant and
\* same Zval; a live ZendCallable only ever changes by being dropped, so it
\* can be called again after a failure.
C16_TryCallLeavesWrapper ==
    /\ [](/\ frame.stage = "bridge" => (wrapper = frame.self /\ wrapper # NoWrapper)
          /\ (Returned /\ wrapper # NoWrapper) => wrapper = frame.self)
    /\ [][/\ (wrapper # NoWrapper /\ frame' # frame) => wrapper' = wrapper
          /\ (wrapper # NoWrapper /\ wrapper' # wrapper) =>
                (wrapper' = NoWrapper /\ frame' = frame /\ frame.stage # "bridge")]_vars

C16_Witness ==
    /\ frame.stage = "bridge"
    /\ bridgeCalls = 2
    /\ exception # None
    /\ wrapper = frame.self
    /\ wrapper.kind = "Owned"

\* C17: a try_call enters _call_user_function_impl at most once, and once
\* exactly when the Zval was callable at the start, every parameter
\* converted and the count fits u32; the number of calls into the runtime
\* grows by one at each such try_call and at no other step.
C17_BridgeOncePerPassingCall ==
    /\ [](frame.stage # "none" =>
            /\ frame.invoked \in {0, 1}
            /\ frame.invoked = 1 <=>
                  (/\ frame.wasCallable
                   /\ AllConvert(frame.args)
                   /\ Len(frame.args) <= U32_MAX))
    /\ [][IF frame.stage = "none" /\ frame'.stage # "none"
          THEN bridgeCalls' = bridgeCalls + frame'.invoked
          ELSE bridgeCalls' = bridgeCalls]_vars

C17_Witness ==
    /\ Returned
    /\ bridgeCalls = 1
    /\ frame.invoked = 0
    /\ frame.wasCallable
    /\ AllConvert(frame.args)
    /\ Len(frame.args) > U32_MAX

\* C18: try_call reaches ExecutorGlobals.exception only through one
\* take_exception, made after the runtime returned a status that is not
\* negative. Until the runtime returns, the slot is as it was when try_call
\* started; when try_call returns without the foreign call or after a
\* negative status, the slot is as try_call found it or as the runtime left
\* it, so an exception left with a negative status is still pending.
C18_SlotOnlyTakenAfterStatus ==
    /\ frame.stage = "bridge" => exception = frame.pendingAtStart
    /\ Returned =>
          /\ frame.took <=> (frame.invoked = 1 /\ frame.status >= 0)
          /\ frame.invoked = 0 => exception = frame.pendingAtStart
          /\ (frame.invoked = 1 /\ frame.status < 0) =>
                (exception = frame.slotAtReturn /\ frame.result = Err("Callable"))
          /\ frame.took => (frame.taken = frame.slotAtReturn /\ exception = None)

C18_Witness ==
    /\ Returned
    /\ frame.invoked = 1
    /\ frame.status < 0
    /\ frame.slotAtReturn = "e1"
    /\ frame.pendingAtStart = None
    /\ ~frame.took
    /\ exception = "e1"
    /\ frame.result = Err("Callable")

\* C19: try_call returns Ok only if the runtime returned a status that is
\* not negative and ExecutorGlobals.exception was empty at that moment. If
\* an exception was pending when try_call started and is still in the slot
\* when the runtime returns a status that is not negative, try_call returns
\* Err(Exception) with that exception, not the return value, and the slot is
\* empty afterwards.
C19_OkOnlyWithEmptySlot ==
    Returned =>
        /\ frame.result.tag = "Ok" =>
              /\ frame.invoked = 1
              /\ frame.status >= 0
              /\ frame.slotAtReturn = None
              /\ frame.result = Ok(frame.written)
              /\ exception = None
        /\ (/\ frame.invoked = 1
            /\ frame.status >= 0
            /\ frame.pendingAtStart # None
            /\ frame.slotAtReturn = frame.pendingAtStart) =>
              /\ frame.result = ErrException(frame.pendingAtStart)
              /\ frame.result.val = NoZval
              /\ exception = None

C19_Witness ==
    /\ Returned
    /\ frame.invoked = 1
    /\ frame.status = 0
    /\ frame.pendingAtStart = "e2"
    /\ frame.slotAtReturn = "e2"
    /\ frame.written = Long(1)
    /\ frame.result = ErrException("e2")
    /\ exception = None

====
